---- MODULE Spec2Model ----
(***************************************************************************)
(* A model of bf6-portal-bundler (src/index.js): the import resolver, the  *)
(* recursive dependency walker, the strings.json merger and the bundle     *)
(* assembler.                                                              *)
(*                                                                         *)
(* Representation.  A path is a sequence of segments and a segment is a    *)
(* sequence of atoms (pieces of the file name), so that "/p/src/b.d.ts" is *)
(* << <<"p">>, <<"src">>, <<"b", ".d", ".ts">> >>.  String concatenation   *)
(* (targetPath + ext), endsWith and startsWith act on the atoms.  An       *)
(* import specifier is a relative path of the same shape.  The text of a   *)
(* source file is the sequence of its statements, each of one of the kinds *)
(*   "from"  import <bindings> from "<spec>";                              *)
(*   "side"  import "<spec>";                                              *)
(*   "req"   import <name> = require("<spec>");                            *)
(*   "exp"   export * from "<spec>";                                       *)
(*   "code"  any text without the words import, export, from, require     *)
(* and the regular expressions of the source act on that sequence the way  *)
(* they act on the text (leftmost match, alternatives in order, lazy       *)
(* quantifiers growing across statement boundaries).                       *)
(***************************************************************************)
EXTENDS Integers, Sequences, FiniteSets, TLC

VARIABLES
    fs,                 \* the source tree on disk: file path -> statements
    json,               \* the .json files on disk: file path -> document
    pc,                 \* position of build()
    visited,            \* const visited = new Set()
    buildOrder,         \* const buildOrder = []
    stack,              \* the active calls of walk(), innermost last
    warnings,           \* number of console.warn calls of resolveImport
    last,               \* the last call of resolveImport and what it did
    edges,              \* the (importer, dependency) pairs walk resolved to a walkable file
    reads,              \* file path -> number of times walk read the file
    todo,               \* the strings.json files processStrings has still to visit
    processedJsonFiles, \* const processedJsonFiles = new Set()
    mergedStrings,      \* const mergedStrings = {} as its own properties in insertion order
    finalOutput,        \* let finalOutput = [...] (the blocks after the banner)
    outStrings,         \* bundle.strings.json as written by this run
    outBundle,          \* bundle.ts as written by this run
    fatal               \* the fatal condition that ended the build, if any

vars == <<fs, json, pc, visited, buildOrder, stack, warnings, last, edges, reads,
          todo, processedJsonFiles, mergedStrings, finalOutput, outStrings,
          outBundle, fatal>>

----------------------------------------------------------------------------
\* Bounds of the model

\* longest import list of a file in the import-graph inputs
MaxImports == 2
\* longest statement list of the entry file in the statement-mix inputs
MaxStmts == 2
\* largest number of top-level keys of a strings.json document
MaxKeys == 2
\* deepest nesting of walk() calls the model follows
MaxDepth == 6

----------------------------------------------------------------------------
\* Paths

Seg(a) == <<a>>

PROJECT_ROOT == << Seg("p") >>
SRC == PROJECT_ROOT \o << Seg("src") >>
SUB == SRC \o << Seg("u") >>
NODE_MODULES == PROJECT_ROOT \o << Seg("node_modules") >>
\* __dirname of the bundler itself, outside the project
BUNDLER_DIR == << Seg("tool") >>

ENTRY_FILE == SRC \o << <<"a", ".ts">> >>
FileB == SRC \o << <<"b", ".ts">> >>
FileC == SUB \o << <<"c", ".ts">> >>
FileD == SUB \o << <<"d", ".ts">> >>

EXTERNAL_MODULES == { << Seg("mod") >> }

dirname(p) == SubSeq(p, 1, Len(p) - 1)

RECURSIVE Normalize(_, _)
Normalize(acc, rest) ==
    IF rest = <<>> THEN acc
    ELSE LET s == Head(rest) IN
         IF s = <<".">> THEN Normalize(acc, Tail(rest))
         ELSE IF s = <<"..">>
              THEN Normalize(IF acc = <<>> THEN acc ELSE SubSeq(acc, 1, Len(acc) - 1),
                             Tail(rest))
              ELSE Normalize(Append(acc, s), Tail(rest))

\* path.resolve(base, rel) for an absolute base and a relative rel
path_resolve(base, rel) == Normalize(<<>>, base \o rel)

\* importPath.startsWith('.')
startsWithDot(importPath) ==
    /\ importPath # <<>>
    /\ Head(importPath) # <<>>
    /\ Head(Head(importPath)) \in {".", "..", ".ts", ".d"}

\* absolutePath.endsWith('.d.ts')
endsWithDts(p) ==
    /\ p # <<>>
    /\ LET l == p[Len(p)] IN
         /\ Len(l) >= 2
         /\ l[Len(l) - 1] = ".d"
         /\ l[Len(l)] = ".ts"

\* targetPath + ext, where ext is text added to the last segment followed by
\* further segments
Appended(targetPath, ext) ==
    IF targetPath = <<>> THEN << ext.tail >> \o ext.segs
    ELSE (SubSeq(targetPath, 1, Len(targetPath) - 1)
            \o << targetPath[Len(targetPath)] \o ext.tail >>) \o ext.segs

\* the declaration file tried ahead of the source file
extensionsDeclarationFirst ==
    << [tail |-> <<".d", ".ts">>, segs |-> <<>>],
       [tail |-> <<".ts">>, segs |-> <<>>],
       [tail |-> <<>>, segs |-> << <<"index", ".ts">> >>] >>

\* const extensions = ['.ts', '/index.ts', '.d.ts']
extensions ==
    << [tail |-> <<".ts">>, segs |-> <<>>],
       [tail |-> <<>>, segs |-> << <<"index", ".ts">> >>],
       [tail |-> <<".d", ".ts">>, segs |-> <<>>] >>

\* fs.existsSync(p) && fs.statSync(p).isFile()
IsFile(p) == p \in DOMAIN fs

\* the base path resolveImport probes for a specifier
TargetPath(importPath, currentFileDir) ==
    IF startsWithDot(importPath)
    THEN path_resolve(currentFileDir, importPath)
    ELSE path_resolve(NODE_MODULES, importPath)

\* the probes of resolveImport in the order it makes them
Candidates(targetPath) ==
    << targetPath >> \o [i \in 1..Len(extensions) |-> Appended(targetPath, extensions[i])]

RECURSIVE FirstFile(_, _)
\* index of the first candidate from i on that is a file, 0 when there is none
FirstFile(cands, i) ==
    IF i > Len(cands) THEN 0
    ELSE IF IsFile(cands[i]) THEN i
    ELSE FirstFile(cands, i + 1)

NoPath == <<>>

\* function resolveImport(importPath, currentFileDir): found = FALSE is the
\* return of null
resolveImport(importPath, currentFileDir) ==
    IF importPath \in EXTERNAL_MODULES
    THEN [importPath |-> importPath, dir |-> currentFileDir, found |-> FALSE,
          path |-> NoPath, probed |-> <<>>, warned |-> FALSE]
    ELSE LET cands == Candidates(TargetPath(importPath, currentFileDir))
             hit == FirstFile(cands, 1)
         IN IF hit # 0
            THEN [importPath |-> importPath, dir |-> currentFileDir, found |-> TRUE,
                  path |-> cands[hit], probed |-> SubSeq(cands, 1, hit), warned |-> FALSE]
            ELSE [importPath |-> importPath, dir |-> currentFileDir, found |-> FALSE,
                  path |-> NoPath, probed |-> cands, warned |-> TRUE]

----------------------------------------------------------------------------
\* The regular expressions over the statements of a file

\* statements whose text starts with "import" followed by white space
ImportKinds == {"from", "side", "req"}
\* statements that hold  from "<spec>"
FromKinds == {"from", "exp"}

RECURSIVE FirstOf(_, _, _)
\* index of the first statement from i on whose kind is in kinds, 0 when none
FirstOf(content, i, kinds) ==
    IF i > Len(content) THEN 0
    ELSE IF content[i].kind \in kinds THEN i
    ELSE FirstOf(content, i + 1, kinds)

\* importRegex.exec(content) with importRegex.lastIndex before statement
\* lastIndex.  The leftmost "import" starts the match; the first alternative
\* lets [\s\S]*? grow to the first  from "<spec>"  at or after it, in whatever
\* statement that is, and captures that specifier; only when the rest of the
\* text holds no such clause does the match fall back to the statement's own
\* quoted specifier or its own require("<spec>").
importRegexExec(content, lastIndex) ==
    LET j == FirstOf(content, lastIndex, ImportKinds) IN
    IF j = 0
    THEN [found |-> FALSE, importPath |-> <<>>, lastIndex |-> lastIndex]
    ELSE LET k == FirstOf(content, j, FromKinds) IN
         IF k # 0
         THEN [found |-> TRUE, importPath |-> content[k].spec, lastIndex |-> k + 1]
         ELSE [found |-> TRUE, importPath |-> content[j].spec, lastIndex |-> j + 1]

RECURSIVE Replace(_, _, _, _)
\* content.replace(/<head>[\s\S]*?<tail>/g, ''): from every statement of a
\* kind in heads, remove up to and including the first statement of a kind in
\* tails at or after it
Replace(content, i, heads, tails) ==
    IF i > Len(content) THEN <<>>
    ELSE LET k == IF content[i].kind \in heads THEN FirstOf(content, i, tails) ELSE 0 IN
         IF k # 0
         THEN Replace(content, k + 1, heads, tails)
         ELSE << content[i] >> \o Replace(content, i + 1, heads, tails)

\* the four cleanup replacements of build(), in their order
Strip(content) ==
    LET c1 == Replace(content, 1, ImportKinds, FromKinds)
        c2 == Replace(c1, 1, {"side"}, {"side"})
        c3 == Replace(c2, 1, ImportKinds, {"req"})
        c4 == Replace(c3, 1, {"exp"}, FromKinds)
    IN c4

RECURSIVE StripPrefix(_, _)
StripPrefix(root, p) ==
    IF root = <<>> THEN p
    ELSE IF p # <<>> /\ Head(p) = Head(root) THEN StripPrefix(Tail(root), Tail(p))
    ELSE [i \in 1..Len(root) |-> <<"..">>] \o p

\* path.relative(PROJECT_ROOT, filePath)
path_relative(root, p) == StripPrefix(root, p)

----------------------------------------------------------------------------
\* walk

NoCall == [importPath |-> <<>>, dir |-> <<>>, found |-> FALSE, path |-> NoPath,
           probed |-> <<>>, warned |-> FALSE]

\* walk without "if (visited.has(filePath)) return"
walkCallUnguarded(filePath, stk) ==
    [visited |-> visited \cup {filePath},
     stack |-> Append(stk, [filePath |-> filePath, lastIndex |-> 1]),
     reads |-> IF filePath \in DOMAIN reads
               THEN [reads EXCEPT ![filePath] = @ + 1]
               ELSE (filePath :> 1) @@ reads]

\* walk without "visited.add(filePath)" ahead of the scan of the imports
walkCallUnmarked(filePath, stk) ==
    IF filePath \in visited
    THEN [visited |-> visited, stack |-> stk, reads |-> reads]
    ELSE [visited |-> visited,
          stack |-> Append(stk, [filePath |-> filePath, lastIndex |-> 1]),
          reads |-> IF filePath \in DOMAIN reads
                    THEN [reads EXCEPT ![filePath] = @ + 1]
                    ELSE (filePath :> 1) @@ reads]

\* the call walk(filePath) up to the start of its loop, made with the calls
\* in stk active: returns at once for a visited path, otherwise marks the
\* path, reads the file and becomes the innermost call
walkCall(filePath, stk) ==
    IF filePath \in visited
    THEN [visited |-> visited, stack |-> stk, reads |-> reads]
    ELSE [visited |-> visited \cup {filePath},
          stack |-> Append(stk, [filePath |-> filePath, lastIndex |-> 1]),
          reads |-> IF filePath \in DOMAIN reads
                    THEN [reads EXCEPT ![filePath] = @ + 1]
                    ELSE (filePath :> 1) @@ reads]

Top == stack[Len(stack)]
TopMatch == importRegexExec(fs[Top.filePath], Top.lastIndex)
Advanced(m) == [stack EXCEPT ![Len(stack)].lastIndex = m.lastIndex]

\* the loop of walk left at the first unresolved specifier
AfterImportStops(m, r) ==
    IF r.found /\ ~endsWithDts(r.path)
    THEN walkCall(r.path, Advanced(m))
    ELSE [visited |-> visited,
          stack |-> IF r.warned
                    THEN [stack EXCEPT ![Len(stack)].lastIndex = Len(fs[Top.filePath]) + 1]
                    ELSE Advanced(m),
          reads |-> reads]

\* the rest of the loop body for the match m once resolveImport has returned
\* r: a path that is not a declaration file is walked first, and the loop
\* goes on behind the match either way
AfterImport(m, r) ==
    IF r.found /\ ~endsWithDts(r.path)
    THEN walkCall(r.path, Advanced(m))
    ELSE [visited |-> visited, stack |-> Advanced(m), reads |-> reads]

\* buildOrder.unshift(filePath) in the place of push
Unshifted(order, filePath) == << filePath >> \o order

\* buildOrder.push(filePath)
Pushed(order, filePath) == Append(order, filePath)

\* build(): the entry file does not exist
BuildEntryMissing ==
    /\ pc = "start"
    /\ ENTRY_FILE \notin DOMAIN fs
    /\ pc' = "aborted"
    /\ fatal' = [kind |-> "entry", key |-> "", path |-> ENTRY_FILE]
    /\ UNCHANGED <<fs, json, visited, buildOrder, stack, warnings, last, edges, reads,
                   todo, processedJsonFiles, mergedStrings, finalOutput, outStrings,
                   outBundle>>

\* build(): walk(ENTRY_FILE) is called
BuildWalkEntry ==
    /\ pc = "start"
    /\ ENTRY_FILE \in DOMAIN fs
    /\ LET w == walkCall(ENTRY_FILE, stack) IN
         /\ visited' = w.visited
         /\ stack' = w.stack
         /\ reads' = w.reads
    /\ pc' = "walk"
    /\ UNCHANGED <<fs, json, buildOrder, warnings, last, edges, todo,
                   processedJsonFiles, mergedStrings, finalOutput, outStrings,
                   outBundle, fatal>>

\* one turn of the while loop of the innermost walk: the next match of
\* importRegex, resolveImport, and the recursive call up to the callee's loop
WalkImport ==
    /\ pc = "walk"
    /\ stack # <<>>
    /\ TopMatch.found
    /\ LET m == TopMatch IN
       IF m.importPath = <<>>
       THEN /\ stack' = Advanced(m)
            /\ UNCHANGED <<visited, reads, warnings, last, edges>>
       ELSE LET r == resolveImport(m.importPath, dirname(Top.filePath))
                follow == r.found /\ ~endsWithDts(r.path)
                w == AfterImport(m, r)
            IN /\ Len(w.stack) <= MaxDepth
               /\ visited' = w.visited
               /\ stack' = w.stack
               /\ reads' = w.reads
               /\ last' = r
               /\ warnings' = IF r.warned THEN warnings + 1 ELSE warnings
               /\ edges' = IF follow THEN edges \cup {<<Top.filePath, r.path>>} ELSE edges
    /\ UNCHANGED <<fs, json, pc, buildOrder, todo, processedJsonFiles, mergedStrings,
                   finalOutput, outStrings, outBundle, fatal>>

\* the loop of the innermost walk is over: the file is appended and the call
\* returns; the return of walk(ENTRY_FILE) takes build() on to processStrings
WalkReturn ==
    /\ pc = "walk"
    /\ stack # <<>>
    /\ ~TopMatch.found
    /\ buildOrder' = Pushed(buildOrder, Top.filePath)
    /\ stack' = SubSeq(stack, 1, Len(stack) - 1)
    /\ pc' = IF Len(stack) = 1 THEN "processStrings" ELSE "walk"
    /\ UNCHANGED <<fs, json, visited, warnings, last, edges, reads, todo,
                   processedJsonFiles, mergedStrings, finalOutput, outStrings,
                   outBundle, fatal>>

----------------------------------------------------------------------------
\* processStrings

RECURSIVE Dedupe(_, _)
\* new Set(seq) in insertion order
Dedupe(seq, seen) ==
    IF seq = <<>> THEN <<>>
    ELSE IF Head(seq) \in seen THEN Dedupe(Tail(seq), seen)
    ELSE << Head(seq) >> \o Dedupe(Tail(seq), seen \cup {Head(seq)})

\* const directories = new Set(buildOrder.map(f => path.dirname(f)))
Directories == Dedupe([i \in 1..Len(buildOrder) |-> dirname(buildOrder[i])], {})

\* f.endsWith('strings.json') for a file name
endsWithStringsJson(name) == name # <<>> /\ name[Len(name)] = "strings.json"

\* the paths of fs.readdirSync(dir).filter(f => f.endsWith('strings.json'))
StringsFilesOf(dir) ==
    {p \in DOMAIN json \cup DOMAIN fs : dirname(p) = dir /\ endsWithStringsJson(p[Len(p)])}

\* the orders in which the entries of a set can be listed
Orders(S) == {o \in [1..Cardinality(S) -> S] : \A i, j \in DOMAIN o : i # j => o[i] # o[j]}

RECURSIVE Listing(_, _)
\* the strings.json files of the directories dirs, directory by directory,
\* those of one directory in the order ord lists them
Listing(dirs, ord) ==
    IF dirs = <<>> THEN <<>>
    ELSE SelectSeq(ord, LAMBDA p : dirname(p) = Head(dirs)) \o Listing(Tail(dirs), ord)

\* Object.prototype.hasOwnProperty.call(obj, key)
hasOwnProperty(obj, key) == \E i \in DOMAIN obj : obj[i].key = key

\* obj[key] = value on a plain object: the key "__proto__" reaches the accessor
\* of Object.prototype, which creates no own property
Assign(obj, key, value) ==
    IF key = "__proto__" THEN obj
    ELSE IF hasOwnProperty(obj, key)
         THEN [i \in DOMAIN obj |-> IF obj[i].key = key
                                    THEN [key |-> key, value |-> value] ELSE obj[i]]
         ELSE Append(obj, [key |-> key, value |-> value])

RECURSIVE MergeKeys(_, _, _)
\* for (const key of Object.keys(fileContent)) from the i-th key on: stops at
\* the first key the accumulator owns
MergeKeys(acc, entries, i) ==
    IF i > Len(entries) THEN [merged |-> acc, conflict |-> FALSE, key |-> ""]
    ELSE IF hasOwnProperty(acc, entries[i].key)
         THEN [merged |-> acc, conflict |-> TRUE, key |-> entries[i].key]
         ELSE MergeKeys(Assign(acc, entries[i].key, entries[i].value), entries, i + 1)

NoFatal == [kind |-> "none", key |-> "", path |-> NoPath]

\* processStrings(): the directories of buildOrder and their strings.json
\* files, each directory listed in an order of the file system's choosing
ProcessStringsBegin ==
    /\ pc = "processStrings"
    /\ LET found == UNION {StringsFilesOf(Directories[i]) : i \in DOMAIN Directories} IN
         \E ord \in Orders(found) : todo' = Listing(Directories, ord)
    /\ pc' = "merge"
    /\ UNCHANGED <<fs, json, visited, buildOrder, stack, warnings, last, edges, reads,
                   processedJsonFiles, mergedStrings, finalOutput, outStrings,
                   outBundle, fatal>>

\* the next strings.json file parses and none of its keys is in mergedStrings
ProcessStringsFile ==
    /\ pc = "merge"
    /\ todo # <<>>
    /\ LET jsonPath == Head(todo) IN
         IF jsonPath \in processedJsonFiles
         THEN UNCHANGED <<processedJsonFiles, mergedStrings>>
         ELSE /\ json[jsonPath].valid
              /\ LET r == MergeKeys(mergedStrings, json[jsonPath].entries, 1) IN
                   /\ ~r.conflict
                   /\ mergedStrings' = r.merged
              /\ processedJsonFiles' = processedJsonFiles \cup {jsonPath}
    /\ todo' = Tail(todo)
    /\ UNCHANGED <<fs, json, pc, visited, buildOrder, stack, warnings, last, edges,
                   reads, finalOutput, outStrings, outBundle, fatal>>

\* JSON.parse throws for the next strings.json file: the error is rethrown
ProcessStringsParseError ==
    /\ pc = "merge"
    /\ todo # <<>>
    /\ Head(todo) \notin processedJsonFiles
    /\ ~json[Head(todo)].valid
    /\ processedJsonFiles' = processedJsonFiles \cup {Head(todo)}
    /\ pc' = "aborted"
    /\ fatal' = [kind |-> "parse", key |-> "", path |-> Head(todo)]
    /\ UNCHANGED <<fs, json, visited, buildOrder, stack, warnings, last, edges, reads,
                   todo, mergedStrings, finalOutput, outStrings, outBundle>>

\* a key of the next strings.json file is already in mergedStrings:
\* process.exit(1) at that key, the keys before it merged
ProcessStringsDuplicate ==
    /\ pc = "merge"
    /\ todo # <<>>
    /\ Head(todo) \notin processedJsonFiles
    /\ json[Head(todo)].valid
    /\ LET r == MergeKeys(mergedStrings, json[Head(todo)].entries, 1) IN
         /\ r.conflict
         /\ mergedStrings' = r.merged
         /\ fatal' = [kind |-> "duplicate", key |-> r.key, path |-> Head(todo)]
    /\ processedJsonFiles' = processedJsonFiles \cup {Head(todo)}
    /\ pc' = "aborted"
    /\ UNCHANGED <<fs, json, visited, buildOrder, stack, warnings, last, edges, reads,
                   todo, finalOutput, outStrings, outBundle>>

----------------------------------------------------------------------------
\* build: the two artifacts

NotWritten == [written |-> FALSE, data |-> <<>>]

\* bundle.strings.json written while strings.json files are still to be merged
WriteStringsEarly ==
    /\ pc = "merge"
    /\ outStrings' = [written |-> TRUE, data |-> mergedStrings]
    /\ pc' = IF todo = <<>> THEN "concat" ELSE "merge"
    /\ UNCHANGED <<fs, json, visited, buildOrder, stack, warnings, last, edges, reads,
                   todo, processedJsonFiles, mergedStrings, finalOutput, outBundle, fatal>>

\* processStrings has returned: bundle.strings.json is written
WriteStrings ==
    /\ pc = "merge"
    /\ todo = <<>>
    /\ outStrings' = [written |-> TRUE, data |-> mergedStrings]
    /\ pc' = "concat"
    /\ UNCHANGED <<fs, json, visited, buildOrder, stack, warnings, last, edges, reads,
                   todo, processedJsonFiles, mergedStrings, finalOutput, outBundle, fatal>>

\* one turn of the loop over buildOrder: the file is read again, cleaned by
\* the four replacements and pushed under its SOURCE line
ConcatFile ==
    /\ pc = "concat"
    /\ Len(finalOutput) < Len(buildOrder)
    /\ LET filePath == buildOrder[Len(finalOutput) + 1] IN
         finalOutput' = Append(finalOutput,
                               [source |-> path_relative(PROJECT_ROOT, filePath),
                                content |-> Strip(fs[filePath])])
    /\ UNCHANGED <<fs, json, pc, visited, buildOrder, stack, warnings, last, edges,
                   reads, todo, processedJsonFiles, mergedStrings, outStrings,
                   outBundle, fatal>>

\* bundle.ts is written and the build is complete
WriteBundle ==
    /\ pc = "concat"
    /\ Len(finalOutput) = Len(buildOrder)
    /\ outBundle' = [written |-> TRUE, data |-> finalOutput]
    /\ pc' = "done"
    /\ UNCHANGED <<fs, json, visited, buildOrder, stack, warnings, last, edges, reads,
                   todo, processedJsonFiles, mergedStrings, finalOutput, outStrings,
                   fatal>>

----------------------------------------------------------------------------
\* The inputs of a run: the source tree and the .json files on disk

Stmt(kind, spec) == [kind |-> kind, spec |-> spec]

\* the file name of path t without its last piece (b for b.ts)
Stem(t) == SubSeq(t[Len(t)], 1, Len(t[Len(t)]) - 1)

\* the specifier a file of directory dir (SRC or SUB) writes to import file t
RelSpec(dir, t) ==
    IF dirname(t) = dir THEN << Seg("."), Stem(t) >>
    ELSE IF dir = SRC THEN << Seg("."), Seg("u"), Stem(t) >>
    ELSE << Seg(".."), Stem(t) >>

SeqsUpTo(S, n) == UNION {[1..k -> S] : k \in 0..n}

InjSeqsUpTo(S, n) ==
    {q \in SeqsUpTo(S, n) : \A i, j \in DOMAIN q : i # j => q[i] # q[j]}

\* the texts of a file of dir that imports up to n of the files targets
ImportsOf(dir, targets, n) ==
    {[i \in DOMAIN q |-> Stmt("from", RelSpec(dir, q[i]))] : q \in InjSeqsUpTo(targets, n)}

NoJson == [p \in {} |-> 0]

\* import graphs over a.ts, b.ts, u/c.ts, u/d.ts: chains, diamonds, cycles,
\* self-imports
GraphInputs ==
    {[fs |-> (ENTRY_FILE :> a) @@ (FileB :> b) @@ (FileC :> c) @@ (FileD :> d),
      json |-> NoJson] :
        a \in ImportsOf(SRC, {ENTRY_FILE, FileB, FileC}, MaxImports),
        b \in ImportsOf(SRC, {ENTRY_FILE, FileC, FileD}, MaxImports),
        c \in ImportsOf(SUB, {ENTRY_FILE, FileB, FileD}, MaxImports),
        d \in ImportsOf(SUB, {ENTRY_FILE}, MaxImports)}

SpecB == << Seg("."), Seg("b") >>
SpecC == << Seg("."), Seg("u"), Seg("c") >>
SpecMod == << Seg("mod") >>
SpecK == << Seg("k") >>

\* the statements the entry file is made of in the statement-mix inputs
MixStatements ==
    {Stmt(k, sp) : k \in {"from", "side", "req", "exp"}, sp \in {SpecB, SpecC}}
        \cup {Stmt("from", SpecMod), Stmt("side", <<>>), Stmt("code", <<>>)}

\* a source file that carries the ignored name, in the place a package of
\* that name would resolve to
ModFile == NODE_MODULES \o << <<"mod", ".ts">> >>

\* an entry file of any mix of statements; b.ts and u/c.ts import nothing
StatementInputs ==
    {[fs |-> (ENTRY_FILE :> a) @@ (FileB :> <<>>) @@ (FileC :> <<>>) @@ (ModFile :> <<>>),
      json |-> NoJson] :
        a \in SeqsUpTo(MixStatements, MaxStmts)}

NodeK == NODE_MODULES \o << Seg("k") >>

\* the files a specifier for b or k can resolve to, and one the resolver must
\* not look at: a package k next to the bundler itself
ResolveCandidates ==
    { SRC \o << Seg("b") >>,
      SRC \o << <<"b", ".ts">> >>,
      SRC \o << Seg("b"), <<"index", ".ts">> >>,
      SRC \o << <<"b", ".d", ".ts">> >>,
      NODE_MODULES \o << <<"k", ".ts">> >>,
      NodeK \o << <<"index", ".ts">> >>,
      NODE_MODULES \o << <<"k", ".d", ".ts">> >>,
      BUNDLER_DIR \o << Seg("node_modules"), <<"k", ".ts">> >> }

\* no path is a file and a directory at once
Consistent(files) == \A f, g \in files : ~(Len(f) < Len(g) /\ SubSeq(g, 1, Len(f)) = f)

\* a.ts imports one of the specifiers under test and then ./u/c, u/c.ts
\* imports one more; any consistent subset of the candidate files exists
ResolveInputs ==
    {[fs |-> (ENTRY_FILE :> << Stmt("from", sa), Stmt("from", SpecC) >>)
               @@ (FileC :> << Stmt("from", sc) >>)
               @@ [f \in E |-> <<>>],
      json |-> NoJson] :
        sa \in {SpecB, SpecK, SpecMod, << Seg("."), <<"b", ".ts">> >>,
                << Seg("."), <<"b", ".d">> >>},
        sc \in {<< Seg(".."), Seg("b") >>, SpecK},
        E \in {F \in SUBSET ResolveCandidates : Consistent(F)}}

Keys == {"x", "y", "__proto__"}

\* a strings.json document whose values all carry the mark v: missing from
\* disk, not parseable, or an object of up to MaxKeys keys
Documents(v) ==
    {[present |-> FALSE, valid |-> FALSE, entries |-> <<>>],
     [present |-> TRUE, valid |-> FALSE, entries |-> <<>>]}
        \cup {[present |-> TRUE, valid |-> TRUE,
               entries |-> [i \in DOMAIN ks |-> [key |-> ks[i], value |-> v]]] :
                 ks \in InjSeqsUpTo(Keys, MaxKeys)}

Json1 == SRC \o << <<"strings.json">> >>
Json2 == SRC \o << <<"ui.", "strings.json">> >>
Json3 == SUB \o << <<"strings.json">> >>
\* never read: not a strings.json name, and a strings.json of a directory
\* that holds no file of buildOrder
OtherJson == SRC \o << <<"other", ".json">> >>
FarJson == PROJECT_ROOT \o << Seg("etc"), <<"strings.json">> >>

\* a.ts imports ./u/c; up to two strings.json files next to a.ts and one
\* next to u/c.ts
ResourceInputs ==
    {[fs |-> (ENTRY_FILE :> << Stmt("from", SpecC) >>) @@ (FileC :> <<>>),
      json |-> [p \in {q \in {Json1, Json2, Json3} :
                         (IF q = Json1 THEN d1 ELSE IF q = Json2 THEN d2 ELSE d3).present}
                  |-> IF p = Json1 THEN d1 ELSE IF p = Json2 THEN d2 ELSE d3]
               @@ (OtherJson :> [present |-> TRUE, valid |-> FALSE, entries |-> <<>>])
               @@ (FarJson :> [present |-> TRUE, valid |-> FALSE, entries |-> <<>>])] :
        d1 \in Documents(1), d2 \in Documents(2), d3 \in Documents(3)}

\* the entry file is not on disk
MissingEntryInputs == {[fs |-> (FileB :> <<>>), json |-> NoJson]}

Inputs ==
    GraphInputs \cup StatementInputs \cup ResolveInputs \cup ResourceInputs
        \cup MissingEntryInputs

----------------------------------------------------------------------------
\* The specification

Init ==
    /\ \E in \in Inputs : fs = in.fs /\ json = in.json
    /\ pc = "start"
    /\ visited = {}
    /\ buildOrder = <<>>
    /\ stack = <<>>
    /\ warnings = 0
    /\ last = NoCall
    /\ edges = {}
    /\ reads = [p \in {} |-> 0]
    /\ todo = <<>>
    /\ processedJsonFiles = {}
    /\ mergedStrings = <<>>
    /\ finalOutput = <<>>
    /\ outStrings = NotWritten
    /\ outBundle = NotWritten
    /\ fatal = NoFatal

Next ==
    \/ BuildEntryMissing
    \/ BuildWalkEntry
    \/ WalkImport
    \/ WalkReturn
    \/ ProcessStringsBegin
    \/ ProcessStringsFile
    \/ ProcessStringsParseError
    \/ ProcessStringsDuplicate
    \/ WriteStrings
    \/ ConcatFile
    \/ WriteBundle

Spec == Init /\ [][Next]_vars

----------------------------------------------------------------------------
\* Properties

Range(q) == {q[i] : i \in DOMAIN q}

\* the first index of x in q, 0 when x is not in q
IndexOf(q, x) ==
    IF x \in Range(q)
    THEN CHOOSE i \in DOMAIN q : q[i] = x /\ \A j \in 1..(i - 1) : q[j] # x
    ELSE 0

\* walk(ENTRY_FILE) has returned, or was never called
WalkFinished == pc \notin {"start", "walk"}

RECURSIVE Closure(_, _)
\* the nodes reachable from the set S along the pairs of E, S included
Closure(S, E) ==
    LET T == S \cup {e[2] : e \in {x \in E : x[1] \in S}} IN
    IF T = S THEN S ELSE Closure(T, E)

\* C1: in every state of the walk, and after it, no file path occurs twice
\* in buildOrder, whatever the import graph (cycles and diamonds included).
C1_NoDuplicates ==
    \A i, j \in DOMAIN buildOrder : i # j => buildOrder[i] # buildOrder[j]

\* a finished walk of a graph with a cycle a -> b -> a and a file u/d.ts
\* imported by both b.ts and u/c.ts, all four files recorded
C1_Witness ==
    /\ pc = "processStrings"
    /\ {<<ENTRY_FILE, FileB>>, <<FileB, ENTRY_FILE>>, <<FileB, FileD>>,
        <<FileC, FileD>>} \subseteq edges
    /\ Len(buildOrder) = 4

RECURSIVE SumRemaining(_)
\* the statements the active calls of stk have still to scan, plus one for
\* the return of each call
SumRemaining(stk) ==
    IF stk = <<>> THEN 0
    ELSE (Len(fs[Head(stk).filePath]) + 2 - Head(stk).lastIndex) + SumRemaining(Tail(stk))

RECURSIVE LongestFile(_)
\* one more than the length of the longest file of the set files
LongestFile(files) ==
    IF files = {} THEN 1
    ELSE LET f == CHOOSE g \in files : TRUE
             rest == LongestFile(files \ {f})
         IN IF Len(fs[f]) + 2 > rest THEN Len(fs[f]) + 2 ELSE rest

\* what is left of the walk: the files not yet visited, each weighing more
\* than the scan of any one file, then the rest of the scans in progress
WalkRank ==
    Cardinality(DOMAIN fs \ visited) * LongestFile(DOMAIN fs) + SumRemaining(stack)

\* C10: the walk terminates on every import graph: the path is marked before
\* its imports are scanned, so every step of the walk lowers WalkRank, which
\* is never negative; no file is read (its import list scanned) more than
\* once, the active calls are calls for distinct visited files, and a turn
\* of the loop whose specifier resolves to a visited file opens no call,
\* reads nothing and appends nothing.
C10_WalkTerminates ==
    /\ [](\A p \in DOMAIN reads : reads[p] <= 1)
    /\ [](Len(stack) <= Cardinality(visited) /\ WalkRank >= 0)
    /\ [][pc = "walk" => WalkRank' < WalkRank]_vars
    /\ [][(/\ pc = "walk"
           /\ Len(stack') >= Len(stack)
           /\ last'.found
           /\ last'.path \in visited)
             => (/\ Len(stack') = Len(stack)
                 /\ buildOrder' = buildOrder
                 /\ visited' = visited
                 /\ reads' = reads)]_vars

\* a finished walk in which a.ts imports itself and b.ts imports a.ts back
C10_Witness ==
    /\ pc = "processStrings"
    /\ {<<ENTRY_FILE, ENTRY_FILE>>, <<ENTRY_FILE, FileB>>, <<FileB, ENTRY_FILE>>}
         \subseteq edges
    /\ reads[ENTRY_FILE] = 1

\* the non-declaration file the specifier spec of file f resolves to, as a
\* set: empty for an ignored, unresolved, empty or declaration-only specifier
Target(f, spec) ==
    IF spec = <<>> THEN {}
    ELSE LET r == resolveImport(spec, dirname(f)) IN
         IF r.found /\ ~endsWithDts(r.path) THEN {r.path} ELSE {}

\* C3: walk extracts the specifier of every wildcard re-export too: after the
\* walk, a non-declaration file that a file of buildOrder re-exports with
\* export * from "<spec>" is in buildOrder, before the re-exporting file.
C3_ReExportWalked ==
    WalkFinished =>
        \A i \in DOMAIN buildOrder :
            \A n \in DOMAIN fs[buildOrder[i]] :
                fs[buildOrder[i]][n].kind = "exp" =>
                    \A t \in Target(buildOrder[i], fs[buildOrder[i]][n].spec) :
                        /\ IndexOf(buildOrder, t) > 0
                        /\ IndexOf(buildOrder, t) < i

\* C4: an import of an ignored name ('mod') is not resolved (no probe of the
\* file system, no warning, no path), puts nothing into buildOrder, and its
\* statement is still in the cleaned text of its file in the bundle.
C4_IgnoredPassthrough ==
    /\ last.importPath \in EXTERNAL_MODULES =>
           (~last.found /\ last.probed = <<>> /\ ~last.warned)
    /\ ModFile \notin visited /\ ModFile \notin Range(buildOrder)
    /\ \A i \in DOMAIN finalOutput :
           \A n \in DOMAIN fs[buildOrder[i]] :
               LET st == fs[buildOrder[i]][n] IN
               (st.kind \in ImportKinds /\ st.spec \in EXTERNAL_MODULES) =>
                   st \in Range(finalOutput[i].content)

ParsedFiles == {p \in processedJsonFiles : json[p].valid}
KeysOf(p) == {json[p].entries[i].key : i \in DOMAIN json[p].entries}

\* C6: the merge never overwrites silently: when the documents merged have
\* pairwise disjoint top-level keys, the merged document holds exactly their
\* keys with their values; when two of them share a key, the build has
\* aborted on a duplicate key, blaming the later document of a shared key and
\* keeping the value of the earlier one.
C6_MergeNeverOverwrites ==
    /\ (/\ pc \in {"concat", "done"}
        /\ \A p, q \in ParsedFiles : p # q => KeysOf(p) \cap KeysOf(q) = {})
           => Range(mergedStrings) = UNION {Range(json[p].entries) : p \in ParsedFiles}
    /\ (\E p, q \in ParsedFiles : p # q /\ KeysOf(p) \cap KeysOf(q) # {}) =>
           /\ pc = "aborted"
           /\ fatal.kind = "duplicate"
           /\ fatal.path \in ParsedFiles
           /\ fatal.key \in KeysOf(fatal.path)
           /\ \E q \in ParsedFiles \ {fatal.path} :
                  \E e \in Range(json[q].entries) :
                      e.key = fatal.key /\ e \in Range(mergedStrings)
    /\ \A i \in DOMAIN mergedStrings :
           \E p \in ParsedFiles : mergedStrings[i] \in Range(json[p].entries)

RECURSIVE AllSpecifiers(_, _)
\* the specifiers the while loop of walk gets from a text, from lastIndex on
AllSpecifiers(content, lastIndex) ==
    LET m == importRegexExec(content, lastIndex) IN
    IF m.found THEN << m.importPath >> \o AllSpecifiers(content, m.lastIndex) ELSE <<>>

WithTail(p, atoms) == [p EXCEPT ![Len(p)] = @ \o atoms]

ImportTargets(f) ==
    UNION {Target(f, fs[f][n].spec) : n \in {m \in DOMAIN fs[f] : fs[f][m].kind \in ImportKinds}}

RECURSIVE ReachableFiles(_)
\* the files reachable from the set S through import statements
ReachableFiles(S) ==
    LET T == S \cup UNION {ImportTargets(f) : f \in S} IN
    IF T = S THEN S ELSE ReachableFiles(T)

\* C9: after the walk, buildOrder holds exactly the files reachable from the
\* entry file through imports that resolve to a non-declaration file.
C9_ExactlyReachable ==
    (WalkFinished /\ ENTRY_FILE \in DOMAIN fs) =>
        Range(buildOrder) = ReachableFiles({ENTRY_FILE})

\* the non-declaration files that the specifiers walk extracts from file f
\* resolve to
ScannedTargets(f) ==
    LET specs == AllSpecifiers(fs[f], 1) IN
    UNION {Target(f, specs[i]) : i \in DOMAIN specs}

RECURSIVE ReachableScanned(_)
ReachableScanned(S) ==
    LET T == S \cup UNION {ScannedTargets(f) : f \in S} IN
    IF T = S THEN S ELSE ReachableScanned(T)

\* What walk does guarantee in the place of C9: buildOrder holds exactly the
\* files reachable through the specifiers its loop extracts.
ScannedReachable ==
    (WalkFinished /\ ENTRY_FILE \in DOMAIN fs) =>
        Range(buildOrder) = ReachableScanned({ENTRY_FILE})

OrdinaryEntries(p) == {e \in Range(json[p].entries) : e.key # "__proto__"}
OrdinaryKeys(p) == KeysOf(p) \ {"__proto__"}

\* What processStrings does guarantee in the place of C6: the statement of
\* C6 for every key but "__proto__".
MergeOfOrdinaryKeys ==
    /\ (/\ pc \in {"concat", "done"}
        /\ \A p, q \in ParsedFiles : p # q => OrdinaryKeys(p) \cap OrdinaryKeys(q) = {})
           => Range(mergedStrings) = UNION {OrdinaryEntries(p) : p \in ParsedFiles}
    /\ (\E p, q \in ParsedFiles : p # q /\ OrdinaryKeys(p) \cap OrdinaryKeys(q) # {}) =>
           /\ pc = "aborted"
           /\ fatal.kind = "duplicate"
           /\ fatal.path \in ParsedFiles
           /\ fatal.key \in OrdinaryKeys(fatal.path)
           /\ \E q \in ParsedFiles \ {fatal.path} :
                  \E e \in OrdinaryEntries(q) :
                      e.key = fatal.key /\ e \in Range(mergedStrings)
    /\ \A i \in DOMAIN mergedStrings :
           \E p \in ParsedFiles : mergedStrings[i] \in OrdinaryEntries(p)

\* an own property of mergedStrings, once set, keeps its place and its value
MergedNeverReplaced ==
    [][\A i \in DOMAIN mergedStrings :
           i \in DOMAIN mergedStrings' /\ mergedStrings'[i] = mergedStrings[i]]_vars

====
